---- MODULE Spec2Model ----
(***************************************************************************)
(* Model of src/code/read.py: the .osm.pbf reading pipeline                *)
(*   parse_osm_pbf -> parse_layer_data (parse_other_tags,                  *)
(*   format_single_geometry, format_multi_geometries) -> read_osm_pbf.     *)
(* Strings are sequences of one-character strings, so that the regular     *)
(* expressions and the str methods act on characters as in the source.     *)
(***************************************************************************)
EXTENDS Integers, Sequences, FiniteSets, TLC

VARIABLES
    pc,           \* position of read_osm_pbf / parse_osm_pbf
    isfile,       \* os.path.isfile(osm_pbf_file)
    osm,          \* the reader handle: "unopened", "none", "open", "released"
    layer_count,  \* osm.GetLayerCount()
    i,            \* index of the layer being drained (1-based)
    lyr_name,     \* lyr.GetName() of the layer being drained
    feat,         \* the feature in hand, or None
    fetched,      \* number of features fetched from the current layer
    feat_data,    \* exported records of the current layer
    layer_names,  \* names of the drained layers
    layer_data,   \* batches (DataFrames) of the drained layers
    data,         \* the value parse_osm_pbf returns
    live_feats,   \* feature handles obtained and not destroyed
    k,            \* read_osm_pbf: index into osm_data.items()
    out_layers,   \* read_osm_pbf: layer_data list
    osm_pbf_data, \* the value read_osm_pbf returns
    raised,       \* the exception that left read_osm_pbf uncaught, or "none"
    call,         \* a direct call of one of the pure functions
    ret           \* its result

vars == <<pc, isfile, osm, layer_count, i, lyr_name, feat, fetched, feat_data,
          layer_names, layer_data, data, live_feats, k, out_layers,
          osm_pbf_data, raised, call, ret>>

orch_vars == <<pc, isfile, osm, layer_count, i, lyr_name, feat, fetched,
               feat_data, layer_names, layer_data, data, live_feats, k,
               out_layers, osm_pbf_data, raised>>

(***************************************************************************)
(* Bounds                                                                  *)
(***************************************************************************)
MaxLayers == 2     \* layers the reader exposes
MaxFeats  == 2     \* features per layer
MaxPairs  == 2     \* "key"=>"value" pairs in a tag blob
MaxRows   == 2     \* rows of a batch given directly to a formatter

(***************************************************************************)
(* Python values                                                           *)
(***************************************************************************)
None == [kind |-> "none"]
Str(s) == [kind |-> "str", chars |-> s]
Error(e) == [kind |-> "error", exc |-> e]
Dict(items) == [kind |-> "dict", items |-> items]

Q == "\""
SEP == <<Q, "=", ">", Q>>        \* the literal '"=>"'
BR == <<"<", "b", "r", ">">>     \* the literal '<br>'
SPACE == <<" ">>

(***************************************************************************)
(* String primitives used by parse_other_tags                              *)
(***************************************************************************)
\* s has the literal lit starting at position p
MatchAt(s, p, lit) ==
    /\ p + Len(lit) - 1 <= Len(s)
    /\ \A j \in 1..Len(lit) : s[p + j - 1] = lit[j]

\* the lookaround pattern (?<="),(?=") matches the character at position p
IsBoundaryComma(s, p) ==
    /\ s[p] = ","
    /\ p > 1 /\ s[p - 1] = Q
    /\ p < Len(s) /\ s[p + 1] = Q

RECURSIVE re_split_from(_, _, _)
re_split_from(s, p, cur) ==
    IF p > Len(s) THEN <<cur>>
    ELSE IF IsBoundaryComma(s, p)
         THEN <<cur>> \o re_split_from(s, p + 1, <<>>)
         ELSE re_split_from(s, p + 1, Append(cur, s[p]))

\* re.split('(?<="),(?=")', s)
re_split(s) == re_split_from(s, 1, <<>>)

\* re.sub('^"|"$', '', s): one leading and one trailing quote removed
re_sub(s) ==
    LET t == IF Len(s) >= 1 /\ s[1] = Q THEN Tail(s) ELSE s
        dropLast == Len(s) >= 2 /\ s[Len(s)] = Q
    IN  IF dropLast THEN SubSeq(t, 1, Len(t) - 1) ELSE t

RECURSIVE str_split_from(_, _, _, _)
str_split_from(s, sep, p, cur) ==
    IF p > Len(s) THEN <<cur>>
    ELSE IF MatchAt(s, p, sep)
         THEN <<cur>> \o str_split_from(s, sep, p + Len(sep), <<>>)
         ELSE str_split_from(s, sep, p + 1, Append(cur, s[p]))

\* s.split(sep)
str_split(s, sep) == str_split_from(s, sep, 1, <<>>)

RECURSIVE str_replace_from(_, _, _, _)
str_replace_from(s, old, new, p) ==
    IF p > Len(s) THEN <<>>
    ELSE IF MatchAt(s, p, old)
         THEN new \o str_replace_from(s, old, new, p + Len(old))
         ELSE <<s[p]>> \o str_replace_from(s, old, new, p + 1)

\* s.replace(old, new)
str_replace(s, old, new) == str_replace_from(s, old, new, 1)

\* d[key] = val on an insertion-ordered dict held as a sequence of pairs
DictSet(items, key, val) ==
    IF \E j \in 1..Len(items) : items[j][1] = key
    THEN [j \in 1..Len(items) |->
             IF items[j][1] = key THEN <<key, val>> ELSE items[j]]
    ELSE Append(items, <<key, val>>)

RECURSIVE DictFrom(_, _)
DictFrom(pairs, acc) ==
    IF pairs = <<>> THEN acc
    ELSE DictFrom(Tail(pairs), DictSet(acc, Head(pairs)[1], Head(pairs)[2]))

\* parse_other_tags(x), x is None or Str(...)
parse_other_tags(x) ==
    IF x # None
    THEN LET segs == re_split(x.chars)
             raw_other_tags == [j \in 1..Len(segs) |-> re_sub(segs[j])]
             parts == [j \in 1..Len(segs) |-> str_split(raw_other_tags[j], SEP)]
         IN  IF \E j \in 1..Len(segs) : Len(parts[j]) # 2
             THEN Error("ValueError")   \* k, v unpacking fails
             ELSE Dict(DictFrom([j \in 1..Len(segs) |->
                          <<parts[j][1], str_replace(parts[j][2], BR, SPACE)>>],
                          <<>>))
    ELSE x

(***************************************************************************)
(* Geometry values.  A coordinate payload carries its nesting depth        *)
(* (a number has depth 0, a position [x, y] depth 1) so that iterating a   *)
(* number is the TypeError it is in Python; the nested list itself is held *)
(* under MaxDepth - depth singleton wrappers, which gives every payload    *)
(* the same shape.  The shapely constructors are external: a constructed   *)
(* geometry records the constructor and what it was given, a payload       *)
(* (coords) or a sequence of geometries (parts).                           *)
(***************************************************************************)
MaxDepth == 4      \* nesting of a MultiPolygon payload

RECURSIVE Wrap(_, _)
Wrap(v, n) == IF n = 0 THEN v ELSE Wrap(<<v>>, n - 1)

RECURSIVE Unwrap(_, _)
Unwrap(v, n) == IF n = 0 THEN v ELSE Unwrap(v[1], n - 1)

Coords(d, v) == [kind |-> "coords", depth |-> d, val |-> Wrap(v, MaxDepth - d)]
\* the nested list of a payload
ListOf(x) == Unwrap(x.val, MaxDepth - x.depth)
NoCoords == [kind |-> "coords", depth |-> 0, val |-> <<>>]

Geom(ctor, coords) ==
    [kind |-> "geom", ctor |-> ctor, coords |-> coords, parts |-> <<>>]
GeomOfParts(ctor, parts) ==
    [kind |-> "geom", ctor |-> ctor, coords |-> NoCoords, parts |-> parts]
Column(vals) == [kind |-> "column", vals |-> vals]
Table(rows) == [kind |-> "table", rows |-> rows]

\* utils.osm_geom_types(): the names the dispatch table has a constructor for
osm_geom_types ==
    {"Point", "LineString", "MultiLineString", "Polygon", "MultiPolygon",
     "GeometryCollection"}

\* 'MultiPolygon'.lstrip('Multi'): leading characters in {M,u,l,t,i} removed
lstrip_Multi(name) == IF name = "MultiPolygon" THEN "Polygon" ELSE name

RECURSIVE Concat(_)
Concat(ss) == IF ss = <<>> THEN <<>> ELSE Head(ss) \o Concat(Tail(ss))

\* [e for es in x for e in es] on a payload; a position cannot be flattened
Flatten(x) ==
    IF x.depth < 2 THEN Error("TypeError")
    ELSE Coords(x.depth - 1, Concat(ListOf(x)))

FirstError(rs) ==
    rs[CHOOSE j \in 1..Len(rs) :
          /\ rs[j].kind = "error"
          /\ \A h \in 1..(j - 1) : rs[h].kind # "error"]

HasError(rs) == \E j \in 1..Len(rs) : rs[j].kind = "error"

\* the lambda of format_single_geometry for MultiPolygon:
\* geom_type_func(sub_geom_type_func(l) for ls in x for l in ls)
multipolygon_of(x, sub) ==
    LET flat == Flatten(x)
    IN  IF flat.kind = "error" THEN flat
        ELSE GeomOfParts("MultiPolygon",
                  [j \in 1..Len(ListOf(flat)) |->
                      Geom(sub, Coords(x.depth - 2, ListOf(flat)[j]))])

\* format_single_geometry(geom_data); geom_type is list(set(geom_type))[0],
\* which the caller picks among the distinct values of the column
format_single_geometry(geom_data, geom_type) ==
    IF geom_data = <<>> THEN Error("IndexError")
    ELSE IF geom_type \notin osm_geom_types THEN Error("KeyError")
    ELSE IF geom_type = "MultiPolygon"
    THEN LET sub == lstrip_Multi(geom_type)
             vals == [r \in 1..Len(geom_data) |->
                         multipolygon_of(geom_data[r].coordinates, sub)]
         IN  IF HasError(vals) THEN FirstError(vals) ELSE Column(vals)
    ELSE Column([r \in 1..Len(geom_data) |->
                    Geom(geom_type, geom_data[r].coordinates)])

\* format_descriptor without the flattening of polygon payloads
format_descriptor_unflattened(geom) ==
    IF geom.type \notin osm_geom_types THEN Error("KeyError")
    ELSE Geom(geom.type, geom.coordinates)

\* one element of geom_collection in format_multi_geometries
format_descriptor(geom) ==
    IF geom.type \notin osm_geom_types THEN Error("KeyError")
    ELSE IF geom.type \notin {"Polygon", "MultiPolygon"}  \* 'Polygon' not in geom_type
    THEN Geom(geom.type, geom.coordinates)
    ELSE LET flat == Flatten(geom.coordinates)
         IN  IF flat.kind = "error" THEN flat ELSE Geom(geom.type, flat)

\* format_multi_geometries(geometries)
format_multi_geometries(geometries) ==
    LET geom_collection ==
            [j \in 1..Len(geometries) |-> format_descriptor(geometries[j])]
    IN  IF HasError(geom_collection) THEN FirstError(geom_collection)
        ELSE GeomOfParts("GeometryCollection", geom_collection)

\* the distinct geom_type values of a batch
GeomTypesOf(dat) == {dat[r].geom_type : r \in 1..Len(dat)}

\* parse_layer_data(dat, geo_typ); pick is the element list(set(...))[0] yields
parse_layer_data(dat, geo_typ, pick) ==
    IF dat = <<>> THEN Error("AttributeError")      \* dat.properties
    ELSE
    LET tags == [r \in 1..Len(dat) |-> parse_other_tags(dat[r].other_tags)]
    IN  IF HasError(tags) THEN FirstError(tags)
        ELSE IF geo_typ = "other_relations"
        THEN LET gs == [r \in 1..Len(dat) |->
                           format_multi_geometries(dat[r].geometries)]
             IN  IF HasError(gs) THEN FirstError(gs)
                 ELSE Table([r \in 1..Len(dat) |->
                         [osm_id |-> dat[r].osm_id, other_tags |-> tags[r],
                          geom_type |-> dat[r].geom_type,
                          geometries |-> dat[r].geometries,
                          coordinates |-> gs[r]]])
        ELSE LET col == format_single_geometry(
                            [r \in 1..Len(dat) |->
                                [geom_type |-> dat[r].geom_type,
                                 coordinates |-> dat[r].coordinates]], pick)
             IN  IF col.kind = "error" THEN col
                 ELSE Table([r \in 1..Len(dat) |->
                         [osm_id |-> dat[r].osm_id, other_tags |-> tags[r],
                          geom_type |-> dat[r].geom_type,
                          coordinates |-> col.vals[r]]])

(***************************************************************************)
(* Inputs: tag blobs                                                       *)
(***************************************************************************)
Keys == << <<"k">>, <<"n">> >>
Values ==
    << <<"v">>,
       <<>>,
       <<",">>,
       <<"v", ",", "w">>,
       <<"<", "b", "r", ">">>,
       <<"v", "<", "b", "r", ">", "w">> >>

\* sequences of at most MaxPairs (key, value) pairs, by index
PairSeqs ==
    UNION {[1..n -> (1..Len(Keys)) \X (1..Len(Values))] : n \in 0..MaxPairs}

KeyOf(ps, j) == Keys[ps[j][1]]
ValueOf(ps, j) == Values[ps[j][2]]

\* the serialisation '"key"=>"value"' of one pair
EncodePair(key, val) == <<Q>> \o key \o SEP \o val \o <<Q>>

RECURSIVE JoinComma(_)
JoinComma(ss) ==
    IF ss = <<>> THEN <<>>
    ELSE IF Len(ss) = 1 THEN Head(ss)
    ELSE Head(ss) \o <<",">> \o JoinComma(Tail(ss))

\* the blob of a sequence of (key, value) pairs
Encode(items) ==
    JoinComma([j \in 1..Len(items) |-> EncodePair(items[j][1], items[j][2])])

EncodeIdx(ps) ==
    Encode([j \in 1..Len(ps) |-> <<KeyOf(ps, j), ValueOf(ps, j)>>])

\* blobs that are not a sequence of pairs
MalformedBlobs ==
    { <<Q, "k", Q>>,
      <<"k", "=", "v">>,
      <<Q, "k", Q, "=", ">", Q, "v", Q, "=", ">", Q, "w", Q>>,
      <<Q, "k", Q, "=", ">", Q, "v", Q, ",", Q, "n", Q>> }

TagBlobs == {EncodeIdx(ps) : ps \in PairSeqs} \cup MalformedBlobs

(***************************************************************************)
(* Inputs: geometries                                                      *)
(***************************************************************************)
PA == <<0, 0>>
PB == <<1, 0>>
PC == <<0, 1>>
PD == <<1, 1>>
R1 == <<PA, PB, PC, PA>>
R2 == <<PB, PD, PC, PB>>

\* (geom_type, coordinates) of the single-geometry layers
SimpleGeoms ==
    << [geom_type |-> "Point", coordinates |-> Coords(1, PA)],
       [geom_type |-> "LineString", coordinates |-> Coords(2, <<PA, PB>>)],
       [geom_type |-> "MultiLineString", coordinates |-> Coords(3, <<R1, R2>>)],
       [geom_type |-> "Polygon", coordinates |-> Coords(3, <<R1, R2>>)],
       [geom_type |-> "MultiPolygon",
        coordinates |-> Coords(4, << <<R1>>, <<R2>> >>)],
       [geom_type |-> "MultiPolygon",
        coordinates |-> Coords(4, << <<R1, R2>> >>)],
       [geom_type |-> "Curve", coordinates |-> Coords(2, <<PA, PB>>)] >>

\* descriptors of an other_relations row
Descriptors ==
    << [type |-> "Point", coordinates |-> Coords(1, PA)],
       [type |-> "LineString", coordinates |-> Coords(2, <<PA, PB>>)],
       [type |-> "Polygon", coordinates |-> Coords(3, <<R1, R2>>)],
       [type |-> "Polygon", coordinates |-> Coords(3, <<R1>>)],
       [type |-> "MultiPolygon",
        coordinates |-> Coords(4, << <<R1>>, <<R2>> >>)],
       [type |-> "Curve", coordinates |-> Coords(2, <<PA, PB>>)] >>

IdxSeqs(n, lo, hi) == UNION {[1..m -> 1..n] : m \in lo..hi}

\* the tags field of a feature
TagFields ==
    << None,
       Str(Encode(<< << <<"k">>, <<"v">> >> >>)),
       Str(Encode(<< << <<"k">>, <<"v", "<", "b", "r", ">", "w">> >>,
                     << <<"n">>, <<"v", ",", "w">> >> >>)),
       Str(<<Q, "k", Q>>) >>

\* geometries lists of the relation features
RelGeoms ==
    << <<Descriptors[3], Descriptors[1]>>,
       <<Descriptors[2]>>,
       <<Descriptors[6]>> >>

LayerNames ==
    {"points", "lines", "multilinestrings", "multipolygons", "other_relations"}

\* json.loads(feat.ExportToJson()) of a feature of a single-geometry layer
SimpleFeature(id, t, g) ==
    [osm_id |-> id, other_tags |-> TagFields[t],
     geom_type |-> SimpleGeoms[g].geom_type,
     coordinates |-> SimpleGeoms[g].coordinates]

\* ... and of a feature of the other_relations layer
RelFeature(id, t, g) ==
    [osm_id |-> id, other_tags |-> TagFields[t],
     geom_type |-> "GeometryCollection", geometries |-> RelGeoms[g]]

(***************************************************************************)
(* Direct calls of the functions of parse_layer_data                       *)
(***************************************************************************)
Idle == [fn |-> "idle"]

Call_parse_other_tags ==
    /\ call = Idle
    /\ \E x \in {None} \cup {Str(b) : b \in TagBlobs} :
          /\ call' = [fn |-> "parse_other_tags", x |-> x]
          /\ ret' = parse_other_tags(x)
    /\ UNCHANGED orch_vars

Call_format_single_geometry ==
    /\ call = Idle
    /\ \E ix \in IdxSeqs(Len(SimpleGeoms), 0, MaxRows) :
          LET geom_data == [r \in 1..Len(ix) |-> SimpleGeoms[ix[r]]]
          IN  \E geom_type \in (IF geom_data = <<>> THEN {"none"}
                                ELSE GeomTypesOf(geom_data)) :
                 /\ call' = [fn |-> "format_single_geometry",
                             geom_data |-> geom_data, geom_type |-> geom_type]
                 /\ ret' = format_single_geometry(geom_data, geom_type)
    /\ UNCHANGED orch_vars

Call_format_multi_geometries ==
    /\ call = Idle
    /\ \E ix \in IdxSeqs(Len(Descriptors), 0, MaxRows) :
          LET geometries == [r \in 1..Len(ix) |-> Descriptors[ix[r]]]
          IN  /\ call' = [fn |-> "format_multi_geometries",
                          geometries |-> geometries]
              /\ ret' = format_multi_geometries(geometries)
    /\ UNCHANGED orch_vars

Call_parse_layer_data ==
    /\ call = Idle
    /\ \E geo_typ \in LayerNames :
          IF geo_typ = "other_relations"
          THEN \E ix \in IdxSeqs(Len(TagFields) * Len(RelGeoms), 0, MaxRows) :
                  LET dat == [r \in 1..Len(ix) |->
                                 RelFeature(r, ((ix[r] - 1) % Len(TagFields)) + 1,
                                            ((ix[r] - 1) \div Len(TagFields)) + 1)]
                  IN  /\ call' = [fn |-> "parse_layer_data", dat |-> dat,
                                  geo_typ |-> geo_typ, pick |-> "GeometryCollection"]
                      /\ ret' = parse_layer_data(dat, geo_typ, "GeometryCollection")
          ELSE \E ix \in IdxSeqs(Len(TagFields) * Len(SimpleGeoms), 0, MaxRows) :
                  LET dat == [r \in 1..Len(ix) |->
                                 SimpleFeature(r, ((ix[r] - 1) % Len(TagFields)) + 1,
                                               ((ix[r] - 1) \div Len(TagFields)) + 1)]
                  IN  \E pick \in (IF dat = <<>> THEN {"none"} ELSE GeomTypesOf(dat)) :
                         /\ call' = [fn |-> "parse_layer_data", dat |-> dat,
                                     geo_typ |-> geo_typ, pick |-> pick]
                         /\ ret' = parse_layer_data(dat, geo_typ, pick)
    /\ UNCHANGED orch_vars

OrchInit ==
    /\ pc = "start"
    /\ isfile \in BOOLEAN
    /\ osm = "unopened"
    /\ layer_count = 0
    /\ i = 0
    /\ lyr_name = "none"
    /\ feat = None
    /\ fetched = 0
    /\ feat_data = <<>>
    /\ layer_names = <<>>
    /\ layer_data = <<>>
    /\ data = None
    /\ live_feats = {}
    /\ k = 0
    /\ out_layers = <<>>
    /\ osm_pbf_data = None
    /\ raised = "none"

FnInit ==
    /\ OrchInit
    /\ isfile = TRUE
    /\ call = Idle
    /\ ret = None

FnNext ==
    \/ Call_parse_other_tags
    \/ Call_format_single_geometry
    \/ Call_format_multi_geometries
    \/ Call_parse_layer_data

FnSpec == FnInit /\ [][FnNext]_vars

(***************************************************************************)
(* The binary reader (ogr), as the environment of parse_osm_pbf            *)
(***************************************************************************)
\* geometries the driver puts in each single-geometry layer (SimpleGeoms)
LayerGeoms(name) ==
    CASE name = "points" -> {1}
      [] name = "lines" -> {2}
      [] name = "multilinestrings" -> {3}
      [] name = "multipolygons" -> {5, 6}
      [] OTHER -> {}

\* tags fields of the features the reader delivers (TagFields)
ReaderTags == {1, 2, 4}

\* the records GetNextFeature / ExportToJson can deliver in a layer
ReaderFeatures(name, id) ==
    IF name = "other_relations"
    THEN {RelFeature(id, t, 1) : t \in ReaderTags}
    ELSE {SimpleFeature(id, t, g) : t \in ReaderTags, g \in LayerGeoms(name)}

Names(seq) == {seq[j] : j \in 1..Len(seq)}

(***************************************************************************)
(* parse_osm_pbf                                                           *)
(***************************************************************************)
\* lines 280-282: ask to download the file when it is not there
CheckFile ==
    /\ pc = "start"
    /\ IF isfile THEN UNCHANGED isfile
       ELSE \E confirmed \in BOOLEAN, downloaded \in BOOLEAN :
               isfile' = (confirmed /\ downloaded)
    /\ pc' = "open"
    /\ UNCHANGED <<osm, layer_count, i, lyr_name, feat, fetched, feat_data,
                   layer_names, layer_data, data, live_feats, k, out_layers,
                   osm_pbf_data, raised, call, ret>>

\* line 286: ogr.Open gives a reader, gives None, or raises
Open ==
    /\ pc = "open"
    /\ \/ /\ isfile
          /\ osm' = "open"
          /\ pc' = "count"
       \/ /\ osm' = "none"
          /\ pc' = "count"
       \/ /\ pc' = "except"
          /\ UNCHANGED osm
    /\ UNCHANGED <<isfile, layer_count, i, lyr_name, feat, fetched, feat_data,
                   layer_names, layer_data, data, live_feats, k, out_layers,
                   osm_pbf_data, raised, call, ret>>

\* line 289: osm.GetLayerCount()
GetLayerCount ==
    /\ pc = "count"
    /\ IF osm = "none"
       THEN /\ pc' = "except"             \* AttributeError on None
            /\ UNCHANGED <<layer_count, i>>
       ELSE /\ \E n \in 0..MaxLayers : layer_count' = n
            /\ i' = 1
            /\ pc' = "layer"
    /\ UNCHANGED <<isfile, osm, lyr_name, feat, fetched, feat_data,
                   layer_names, layer_data, data, live_feats, k, out_layers,
                   osm_pbf_data, raised, call, ret>>

\* lines 292-294: the loop test, GetLayerByIndex(i) and GetName()
GetLayer ==
    /\ pc = "layer"
    /\ \/ /\ i > layer_count
          /\ pc' = "zip"
          /\ UNCHANGED <<lyr_name, layer_names, fetched, feat_data>>
       \/ /\ i <= layer_count
          /\ \E name \in LayerNames \ Names(layer_names) :
                /\ lyr_name' = name
                /\ layer_names' = Append(layer_names, name)
          /\ fetched' = 0
          /\ feat_data' = <<>>
          /\ pc' = "next"
       \/ /\ i <= layer_count
          /\ pc' = "except"
          /\ UNCHANGED <<lyr_name, layer_names, fetched, feat_data>>
    /\ UNCHANGED <<isfile, osm, layer_count, i, feat, layer_data, data,
                   live_feats, k, out_layers, osm_pbf_data, raised, call, ret>>

\* lines 297, 302 and the test of line 298: lyr.GetNextFeature()
GetNextFeature ==
    /\ pc = "next"
    /\ \/ /\ fetched < MaxFeats
          /\ \E rec \in ReaderFeatures(lyr_name, fetched + 1) :
                feat' = [handle |-> <<i, fetched + 1>>, rec |-> rec]
          /\ fetched' = fetched + 1
          /\ live_feats' = live_feats \cup {<<i, fetched + 1>>}
          /\ pc' = "export"
       \/ /\ feat' = None
          /\ pc' = "append"
          /\ UNCHANGED <<fetched, live_feats>>
       \/ /\ pc' = "except"
          /\ UNCHANGED <<feat, fetched, live_feats>>
    /\ UNCHANGED <<isfile, osm, layer_count, i, lyr_name, feat_data,
                   layer_names, layer_data, data, k, out_layers, osm_pbf_data,
                   raised, call, ret>>

\* lines 299-300: json.loads(feat.ExportToJson()) and the append
Export ==
    /\ pc = "export"
    /\ \/ /\ feat_data' = Append(feat_data, feat.rec)
          /\ pc' = "destroy"
       \/ /\ pc' = "except"
          /\ UNCHANGED feat_data
    /\ UNCHANGED <<isfile, osm, layer_count, i, lyr_name, feat, fetched,
                   layer_names, layer_data, data, live_feats, k, out_layers,
                   osm_pbf_data, raised, call, ret>>

\* line 301: feat.Destroy()
Destroy ==
    /\ pc = "destroy"
    /\ live_feats' = live_feats \ {feat.handle}
    /\ pc' = "next"
    /\ UNCHANGED <<isfile, osm, layer_count, i, lyr_name, feat, fetched,
                   feat_data, layer_names, layer_data, data, k, out_layers,
                   osm_pbf_data, raised, call, ret>>

\* line 304: layer_data.append(pd.DataFrame(feat_data))
AppendLayer ==
    /\ pc = "append"
    /\ layer_data' = Append(layer_data, feat_data)
    /\ i' = i + 1
    /\ pc' = "layer"
    /\ UNCHANGED <<isfile, osm, layer_count, lyr_name, feat, fetched,
                   feat_data, layer_names, data, live_feats, k, out_layers,
                   osm_pbf_data, raised, call, ret>>

\* dict(zip(keys, values))
DictZip(keys, values) ==
    LET n == IF Len(keys) < Len(values) THEN Len(keys) ELSE Len(values)
    IN  Dict(DictFrom([j \in 1..n |-> <<keys[j], values[j]>>], <<>>))

\* line 307: data = dict(zip(layer_names, layer_data))
Zip ==
    /\ pc = "zip"
    /\ data' = DictZip(layer_names, layer_data)
    /\ pc' = "return"
    /\ UNCHANGED <<isfile, osm, layer_count, i, lyr_name, feat, fetched,
                   feat_data, layer_names, layer_data, live_feats, k,
                   out_layers, osm_pbf_data, raised, call, ret>>

\* lines 309-312: except Exception: data = None
Except ==
    /\ pc = "except"
    /\ data' = None
    /\ pc' = "return"
    /\ UNCHANGED <<isfile, osm, layer_count, i, lyr_name, feat, fetched,
                   feat_data, layer_names, layer_data, live_feats, k,
                   out_layers, osm_pbf_data, raised, call, ret>>

\* line 314: return data
Return ==
    /\ pc = "return"
    /\ pc' = "items"
    /\ UNCHANGED <<isfile, osm, layer_count, i, lyr_name, feat, fetched,
                   feat_data, layer_names, layer_data, data, live_feats, k,
                   out_layers, osm_pbf_data, raised, call, ret>>

(***************************************************************************)
(* read_osm_pbf                                                            *)
(***************************************************************************)
\* line 374: osm_data.items()
Items ==
    /\ pc = "items"
    /\ IF data = None
       THEN /\ raised' = "AttributeError"
            /\ pc' = "crashed"
            /\ UNCHANGED k
       ELSE /\ k' = 1
            /\ pc' = "parse"
            /\ UNCHANGED raised
    /\ UNCHANGED <<isfile, osm, layer_count, i, lyr_name, feat, fetched,
                   feat_data, layer_names, layer_data, data, live_feats,
                   out_layers, osm_pbf_data, call, ret>>

\* lines 374-376: one turn of the loop over osm_data.items()
ParseLayer ==
    /\ pc = "parse"
    /\ k <= Len(data.items)
    /\ LET geom_type == data.items[k][1]
           dat == data.items[k][2]
       IN  \E pick \in (IF dat = <<>> THEN {"none"} ELSE GeomTypesOf(dat)) :
              LET layer_dat == parse_layer_data(dat, geom_type, pick)
              IN  IF layer_dat.kind = "error"
                  THEN /\ raised' = layer_dat.exc
                       /\ pc' = "crashed"
                       /\ UNCHANGED <<k, out_layers>>
                  ELSE /\ out_layers' = Append(out_layers, layer_dat)
                       /\ k' = k + 1
                       /\ UNCHANGED <<pc, raised>>
    /\ UNCHANGED <<isfile, osm, layer_count, i, lyr_name, feat, fetched,
                   feat_data, layer_names, layer_data, data, live_feats,
                   osm_pbf_data, call, ret>>

\* lines 378-380: osm_pbf_data = dict(zip(keys, layer_data)); return
ReturnDataset ==
    /\ pc = "parse"
    /\ k > Len(data.items)
    /\ osm_pbf_data' = DictZip([j \in 1..Len(data.items) |-> data.items[j][1]],
                               out_layers)
    /\ pc' = "done"
    /\ UNCHANGED <<isfile, osm, layer_count, i, lyr_name, feat, fetched,
                   feat_data, layer_names, layer_data, data, live_feats, k,
                   out_layers, raised, call, ret>>

Init ==
    /\ OrchInit
    /\ call = Idle
    /\ ret = None

Next ==
    \/ CheckFile
    \/ Open
    \/ GetLayerCount
    \/ GetLayer
    \/ GetNextFeature
    \/ Export
    \/ Destroy
    \/ AppendLayer
    \/ Zip
    \/ Except
    \/ Return
    \/ Items
    \/ ParseLayer
    \/ ReturnDataset

Spec == Init /\ [][Next]_vars

(***************************************************************************)
(* Properties                                                              *)
(***************************************************************************)
Terminated == pc \in {"crashed", "done"}

\* parse_osm_pbf has returned
Returned == pc \in {"items", "parse", "crashed", "done"}

TagsOk(rec) == parse_other_tags(rec.other_tags).kind # "error"

\* the rows of a batch whose tag blob decodes
RECURSIVE GoodRows(_)
GoodRows(dat) ==
    IF dat = <<>> THEN <<>>
    ELSE IF TagsOk(Head(dat)) THEN <<Head(dat)>> \o GoodRows(Tail(dat))
    ELSE GoodRows(Tail(dat))

Lookup(items, key) ==
    items[CHOOSE j \in 1..Len(items) : items[j][1] = key][2]

HasKey(items, key) == \E j \in 1..Len(items) : items[j][1] = key

\* C1: when opening or reading the file fails (parse_osm_pbf took its except
\* branch), read_osm_pbf ends by returning a null dataset: it does not end
\* with an uncaught error and does not return a filled dataset.
C1_FailureReturnsNull ==
    (Terminated /\ data = None) =>
        (pc = "done" /\ raised = "none" /\ osm_pbf_data = None)

\* C2: parse_other_tags maps None to None and never to an empty mapping; it
\* maps the empty string to the empty mapping, never to None or an error.
C2_NullAndEmptyDistinguished ==
    (call.fn = "parse_other_tags") =>
        /\ (call.x = None => ret = None)
        /\ (call.x # None => ret # None)
        /\ (call.x = Str(<<>>) => ret = Dict(<<>>))

\* C3: when a layer has rows whose tag blob is malformed (and every layer has
\* features), the run still returns a dataset; each layer's table holds
\* exactly the rows whose blob decodes, formatted as they are without the
\* malformed rows, and every layer is processed.
C3_MalformedRowSkipped ==
    ( /\ Terminated
      /\ data # None
      /\ \A j \in 1..Len(data.items) : data.items[j][2] # <<>>
      /\ \E j \in 1..Len(data.items) :
            GoodRows(data.items[j][2]) # data.items[j][2] )
    =>
    ( /\ pc = "done"
      /\ osm_pbf_data.kind = "dict"
      /\ Len(osm_pbf_data.items) = Len(data.items)
      /\ \A j \in 1..Len(data.items) :
            LET good == GoodRows(data.items[j][2])
                name == data.items[j][1]
            IN  /\ osm_pbf_data.items[j][1] = name
                /\ osm_pbf_data.items[j][2].kind = "table"
                /\ IF good = <<>>
                   THEN osm_pbf_data.items[j][2].rows = <<>>
                   ELSE \E pick \in GeomTypesOf(good) :
                           osm_pbf_data.items[j][2] =
                               parse_layer_data(good, name, pick) )

\* C4: given a batch of a layer other than other_relations with two or more
\* distinct geom_type values, parse_layer_data fails; it returns no table in
\* which a row was built with the constructor of another geometry type.
C4_HeterogeneousLayerFails ==
    ( /\ call.fn = "parse_layer_data"
      /\ call.geo_typ # "other_relations"
      /\ Cardinality(GeomTypesOf(call.dat)) >= 2 )
    =>
    ( /\ ret.kind = "error"
      /\ ret.kind = "table" =>
            \A r \in 1..Len(ret.rows) :
               ret.rows[r].coordinates.ctor = ret.rows[r].geom_type )

\* a geometry-type name outside the vocabulary occurs in the input of a call
UnknownTypeIn(c) ==
    IF c.fn = "parse_layer_data"
    THEN IF c.geo_typ = "other_relations"
         THEN (\E r \in 1..Len(c.dat) : \E d \in 1..Len(c.dat[r].geometries) :
                  c.dat[r].geometries[d].type \notin osm_geom_types)
         ELSE (\E r \in 1..Len(c.dat) : c.dat[r].geom_type \notin osm_geom_types)
    ELSE IF c.fn = "format_single_geometry"
    THEN (\E r \in 1..Len(c.geom_data) :
             c.geom_data[r].geom_type \notin osm_geom_types)
    ELSE IF c.fn = "format_multi_geometries"
    THEN (\E d \in 1..Len(c.geometries) :
             c.geometries[d].type \notin osm_geom_types)
    ELSE FALSE

\* C5: whenever a geometry-type name outside the vocabulary occurs in a row
\* of the batch (or in a descriptor of an other_relations row), the call ends
\* with an error and returns no table or column.
C5_UnknownTypeStops ==
    UnknownTypeIn(call) => ret.kind = "error"

\* C6: for a MultiPolygon column, format_single_geometry gives each row one
\* multi-polygon with exactly as many polygons as the payload has top-level
\* polygon entries.
C6_OnePolygonPerEntry ==
    ( /\ call.fn = "format_single_geometry"
      /\ Len(call.geom_data) >= 1
      /\ \A r \in 1..Len(call.geom_data) :
            /\ call.geom_data[r].geom_type = "MultiPolygon"
            /\ call.geom_data[r].coordinates.depth = 4 )
    =>
    ( /\ ret.kind = "column"
      /\ Len(ret.vals) = Len(call.geom_data)
      /\ \A r \in 1..Len(call.geom_data) :
            /\ ret.vals[r].ctor = "MultiPolygon"
            /\ Len(ret.vals[r].parts) =
                  Len(ListOf(call.geom_data[r].coordinates))
            /\ \A p \in 1..Len(ret.vals[r].parts) :
                  ret.vals[r].parts[p].ctor = "Polygon" )

\* the argument is one "Polygon" descriptor whose payload is the single-level
\* list of the two ring-groups R1, R2
OnePolygonDescriptor(geometries) ==
    /\ Len(geometries) = 1
    /\ geometries[1].type = "Polygon"
    /\ geometries[1].coordinates = Coords(3, <<R1, R2>>)

\* the argument is one "MultiPolygon" row holding them one level deeper
OneMultiPolygonRow(geom_data) ==
    /\ Len(geom_data) = 1
    /\ geom_data[1].geom_type = "MultiPolygon"
    /\ geom_data[1].coordinates = Coords(4, << <<R1>>, <<R2>> >>)

\* C7 (as the spec states it): format_multi_geometries given one "Polygon"
\* descriptor whose payload is a list of two ring-groups returns a collection
\* holding 2 separate polygons for that descriptor.
C7_TwoPolygonsInCollection ==
    (call.fn = "format_multi_geometries" /\ OnePolygonDescriptor(call.geometries))
    =>
    ( /\ ret.kind = "geom"
      /\ ret.ctor = "GeometryCollection"
      /\ Len(ret.parts) = 2
      /\ \A p \in 1..Len(ret.parts) : ret.parts[p].ctor = "Polygon" )

\* C7 (amended): format_multi_geometries returns a collection holding exactly
\* one geometry per descriptor, of the descriptor's type; a "Polygon" or
\* "MultiPolygon" descriptor is built from its payload flattened one level,
\* so the "Polygon" descriptor with two ring-groups gives 1 polygon over the
\* points of both ring-groups; format_single_geometry on the same two
\* ring-groups nested one level deeper gives one multi-polygon of 2
\* polygons, one per ring-group.
C7_OneGeometryPerDescriptor ==
    /\ ( /\ call.fn = "format_multi_geometries"
         /\ \A d \in 1..Len(call.geometries) :
               call.geometries[d].type \in osm_geom_types )
       =>
       ( /\ ret.kind = "geom"
         /\ ret.ctor = "GeometryCollection"
         /\ Len(ret.parts) = Len(call.geometries)
         /\ \A d \in 1..Len(call.geometries) :
               LET desc == call.geometries[d]
               IN  /\ ret.parts[d].ctor = desc.type
                   /\ ret.parts[d].parts = <<>>
                   /\ ret.parts[d].coords =
                         IF desc.type \in {"Polygon", "MultiPolygon"}
                         THEN Coords(desc.coordinates.depth - 1,
                                     Concat(ListOf(desc.coordinates)))
                         ELSE desc.coordinates )
    /\ (call.fn = "format_multi_geometries"
          /\ OnePolygonDescriptor(call.geometries))
       => ret = GeomOfParts("GeometryCollection",
                            <<Geom("Polygon", Coords(2, R1 \o R2))>>)
    /\ (call.fn = "format_single_geometry" /\ OneMultiPolygonRow(call.geom_data))
       => ret = Column(<<GeomOfParts("MultiPolygon",
                                     <<Geom("Polygon", Coords(2, R1)),
                                       Geom("Polygon", Coords(2, R2))>>)>>)

\* the "Polygon" descriptor with two ring-groups was formatted
C7_Witness ==
    /\ call.fn = "format_multi_geometries"
    /\ OnePolygonDescriptor(call.geometries)
    /\ ret.kind = "geom"
    /\ Len(ret.parts) = 1
    /\ ret.parts[1].ctor = "Polygon"

\* C8: once parse_osm_pbf has returned after opening the reader, every
\* feature handle obtained from GetNextFeature has been released and the
\* reader handle has been released.
C8_HandlesReleased ==
    (Returned /\ osm \notin {"unopened", "none"}) =>
        (live_feats = {} /\ osm = "released")

\* the blob of the call serialises the pairs ps
Serialises(ps) ==
    /\ Len(ps) >= 1
    /\ \A a, b \in 1..Len(ps) : a # b => ps[a][1] # ps[b][1]
    /\ call.x = Str(EncodeIdx(ps))

\* C9: for a blob that serialises one or more pairs with distinct keys,
\* parse_other_tags returns a mapping that sends each key to its value with
\* every <br> replaced by a space, and decoding the re-encoding of that
\* mapping gives the same mapping.
C9_DecodeRoundTrip ==
    (call.fn = "parse_other_tags") =>
        \A ps \in PairSeqs :
            Serialises(ps) =>
                /\ ret.kind = "dict"
                /\ Len(ret.items) = Len(ps)
                /\ \A j \in 1..Len(ps) :
                      /\ HasKey(ret.items, KeyOf(ps, j))
                      /\ Lookup(ret.items, KeyOf(ps, j)) =
                            str_replace(ValueOf(ps, j), BR, SPACE)
                /\ parse_other_tags(Str(Encode(ret.items))) = ret

\* C10: when the reader opened and was drained without error, read_osm_pbf
\* returns a dataset with one table per layer of the reader, keyed by the
\* layer's name, each with one row per feature, in the reader's order, row r
\* carrying feature r's properties and geometry; also for an empty layer.
C10_OneTablePerLayer ==
    (Terminated /\ data # None) =>
        /\ pc = "done"
        /\ osm_pbf_data.kind = "dict"
        /\ Len(osm_pbf_data.items) = Len(layer_names)
        /\ \A j \in 1..Len(layer_names) :
              /\ osm_pbf_data.items[j][1] = layer_names[j]
              /\ osm_pbf_data.items[j][2].kind = "table"
              /\ Len(osm_pbf_data.items[j][2].rows) = Len(layer_data[j])
              /\ \A r \in 1..Len(layer_data[j]) :
                    LET row == osm_pbf_data.items[j][2].rows[r]
                        rec == layer_data[j][r]
                    IN  /\ row.osm_id = rec.osm_id
                        /\ row.other_tags = parse_other_tags(rec.other_tags)
                        /\ row.geom_type = rec.geom_type
                        /\ row.coordinates.kind = "geom"

====
